---- MODULE Spec2Model ----
(***************************************************************************)
(* Model of the useWebSocket hook (src/src/hooks/usewebsocket.js): the     *)
(* reconnecting real-time client.  The hook is a React function component  *)
(* hook, so its behaviour is decided by three kinds of storage:            *)
(*   - refs (socketRef, reconnectTimeoutRef, pingIntervalRef): written at  *)
(*     once, read by every closure;                                        *)
(*   - state (isConnected, isConnecting, reconnectAttempts, ...): a setX   *)
(*     call queues an update (upd); the value a closure reads is the one   *)
(*     of the render that created the closure (renders);                   *)
(*   - memoised callbacks (connect, emit, processPendingEmits): recreated  *)
(*     by a render only when one of their dependencies changed.            *)
(* The transport (socket.io-client) is the environment: its events are     *)
(* actions, its sockets are entries of socks.                              *)
(***************************************************************************)
EXTENDS Integers, Sequences, FiniteSets, TLC

\* ---------------------------------------------------------------- bounds
MaxRenders == 5      \* render scopes kept alive at once
MaxSocks == 2        \* transport objects alive at once
MaxTimers == 2       \* delayed-reconnect timers pending at once
MaxMsgs == 2         \* emit() calls made by consumers
MaxWrappers == 2     \* on() calls made by consumers
MaxSent == 3         \* packets recorded on the wire
MaxAttempts == 10    \* cap of the reconnectAttempts state value
MaxFailures == 2     \* failed attempts in a row while consumers emit or subscribe
MaxAge == 3          \* ages saturate here (in health-check periods of 30 s)

\* ---------------------------------------------------- program constants
ReconnectionAttempts == 10
StaleThreshold == 2
NoActivity == -1

Events == {"generation_progress", "generation_complete"}
Handlers == {"h1"}
EmitFields == {"data", "timestamp", "requestId"}

VARIABLES
  renders,              \* render scopes still referenced; the last is the current one
  upd,                  \* queued state updates, folded: the values the next render commits
  connectionError,      \* committed connectionError (TRUE: an error message is set)
  lastActivity,         \* committed lastActivity, as an age in periods, or NoActivity
  socketRef,            \* socketRef.current: 0 (null) or a socket of socks
  socks,                \* the transport objects
  pingIntervalRef,      \* pingIntervalRef.current is set
  pingTimers,           \* number of live heartbeat setInterval timers
  reconnectTimeoutRef,  \* reconnectTimeoutRef.current: 0 or a pending timer of timers
  timers,               \* pending delayed-reconnect timers: 0 (free) or the connect closure to call
  checkInterval,        \* the health-check interval of the current render exists
  sent,                 \* packets put on the wire, in order
  cb,                   \* per message: callback invocations (queued results, acknowledgments)
  acks,                 \* packets whose acknowledgment may still arrive
  nextMsg,              \* number of emit() calls made so far
  wrappers,             \* the wrappers (handlerWithLogging) made by on(), one per call
  offed,                \* <<event, handler>> pairs whose last call was off(event, handler)
  cleared,              \* events whose last registry call was removeAllListeners(event)
  throwing,             \* messages whose send throws (a reserved event name, no crypto.randomUUID)
  stale,                \* messages that were in the queue when a cleared identity was rendered
  delivered,            \* handler invocations made by the last inbound message
  last                  \* what the last operation was, with what it observed

vars == <<renders, upd, connectionError, lastActivity, socketRef, socks,
          pingIntervalRef, pingTimers, reconnectTimeoutRef, timers, checkInterval,
          sent, cb, acks, nextMsg, wrappers, offed, cleared, throwing, stale, delivered, last>>

SockIds == 1..MaxSocks
TimerIds == 1..MaxTimers
Msgs == 1..MaxMsgs

\* A socket: its state, the retries of its manager, the connect closure its
\* lifecycle listeners belong to, its consumer listeners, its send buffer and the
\* lifecycle events whose listeners were removed from it.
FreeSock ==
  [st |-> "free", tries |-> 0, own |-> 0, hs |-> {}, buf |-> <<>>, mute |-> {}]

\* The events connect() registers the manager's own listeners for.
LifecycleEvents ==
  {"connect", "disconnect", "connect_error", "reconnect", "reconnect_attempt",
   "reconnect_failed", "pong"}

\* What a lifecycle event of socket s does to W0: H, what the manager's listener
\* makes of it, when that listener is still on the socket.
Heard(W0, s, ev, H) == IF ev \in W0.socks[s].mute THEN W0 ELSE H

Cur == renders[Len(renders)]
user == Cur.user
isConnected == Cur.isConnected
isConnecting == Cur.isConnecting
reconnectAttempts == Cur.reconnectAttempts
eventListeners == Cur.eventListeners
pendingEmits == Cur.pendingEmits

Min(S) == CHOOSE x \in S : \A y \in S : x <= y

\* The world a handler runs in: everything a handler, or one it calls, may write.
World ==
  [renders |-> renders, upd |-> upd, socketRef |-> socketRef, socks |-> socks,
   pingIntervalRef |-> pingIntervalRef, pingTimers |-> pingTimers,
   reconnectTimeoutRef |-> reconnectTimeoutRef, timers |-> timers,
   checkInterval |-> checkInterval, sent |-> sent, cb |-> cb, acks |-> acks,
   throwing |-> throwing, thrown |-> FALSE,
   made |-> 0, tore |-> 0, calls |-> 0, notes |-> 0, over |-> FALSE]

SetState(W, f, v) == [W EXCEPT !.upd[f] = v]

\* showNotification(...): the notification sink is called once more.
showNotification(W) == [W EXCEPT !.notes = W.notes + 1]

\* The socket's own 'disconnect' listener (reason: what the transport reports).
OnDisconnectState(W) ==
  SetState(SetState(SetState(W, "isConnected", FALSE), "isConnecting", FALSE),
           "lastActivity", NoActivity)

\* A disconnect that tells the listeners but leaves the socket and its manager
\* running.
SocketDisconnectSoft(W, s) ==
  IF W.socks[s].st = "connected"
  THEN Heard(W, s, "disconnect", OnDisconnectState(W)) ELSE W

\* socket.disconnect() of socket.io: a connected socket reports 'disconnect'
\* ("io client disconnect") to its listeners at once; the socket is then dead.
SocketDisconnect(W, s) ==
  LET W1 == IF W.socks[s].st = "connected"
            THEN Heard(W, s, "disconnect", OnDisconnectState(W)) ELSE W
  IN [W1 EXCEPT !.socks[s] = FreeSock,
                !.acks = {a \in W1.acks : a.sock # s}]

ClearPing(W) ==
  IF W.pingIntervalRef
  THEN [W EXCEPT !.pingTimers = W.pingTimers - 1, !.pingIntervalRef = FALSE]
  ELSE W

ClearReconnectTimeout(W) ==
  IF W.reconnectTimeoutRef # 0
  THEN [W EXCEPT !.timers[W.reconnectTimeoutRef] = 0, !.reconnectTimeoutRef = 0]
  ELSE W

\* A teardown that forgets the transport: the reference is dropped, the socket
\* is left as it is.
TearDownRefOnly(W) ==
  IF W.socketRef # 0
  THEN [W EXCEPT !.socketRef = 0, !.tore = W.tore + 1]
  ELSE W

\* if (socketRef.current) { socketRef.current.disconnect(); socketRef.current = null; }
TearDown(W) ==
  IF W.socketRef # 0
  THEN [SocketDisconnect(W, W.socketRef) EXCEPT !.socketRef = 0, !.tore = W.tore + 1]
  ELSE W

\* A disconnect that complains when there is nothing to disconnect: it records
\* an error instead of doing nothing.
disconnectStrict(W) ==
  IF W.socketRef = 0 THEN SetState(W, "connectionError", TRUE)
  ELSE LET W1 == TearDown(W)
           W2 == SetState(SetState(SetState(W1, "isConnected", FALSE),
                                   "isConnecting", FALSE), "connectionError", FALSE)
       IN ClearReconnectTimeout(ClearPing(W2))

disconnect(W) ==
  LET W1 == TearDown(W)
      W2 == SetState(SetState(SetState(W1, "isConnected", FALSE),
                              "isConnecting", FALSE), "connectionError", FALSE)
  IN ClearReconnectTimeout(ClearPing(W2))

startPingInterval(W) ==
  LET n == IF W.pingIntervalRef THEN W.pingTimers - 1 ELSE W.pingTimers
  IN [W EXCEPT !.pingTimers = n + 1, !.pingIntervalRef = TRUE]

\* createSocket + the listener registration of connect(): a new transport object
\* whose lifecycle listeners belong to the connect closure c and which carries the
\* consumer handlers of that closure's eventListeners.
createSocket(W, c) ==
  LET free == {s \in SockIds : W.socks[s].st = "free"}
  IN IF free = {} THEN [W EXCEPT !.over = TRUE]
     ELSE LET s == Min(free)
          IN [W EXCEPT !.socks[s] = [st |-> "opening", tries |-> 0, own |-> c,
                                     hs |-> W.renders[c].eventListeners,
                                     buf |-> <<>>, mute |-> {}],
                       !.socketRef = s, !.made = W.made + 1]

\* A connect that does not ask for an identity.
connectAnonymous(W, c) ==
  IF W.socketRef # 0 /\ W.socks[W.socketRef].st = "connected" THEN W
  ELSE IF W.renders[c].isConnecting THEN W
  ELSE LET W1 == SetState(SetState(W, "isConnecting", TRUE), "connectionError", FALSE)
       IN startPingInterval(createSocket(TearDown(W1), c))

\* connect as created by render c (it reads that render's user and isConnecting).
connectBody(W, c) ==
  IF ~W.renders[c].user THEN W
  ELSE IF W.socketRef # 0 /\ W.socks[W.socketRef].st = "connected" THEN W
  ELSE IF W.renders[c].isConnecting THEN W
  ELSE LET W1 == SetState(SetState(W, "isConnecting", TRUE), "connectionError", FALSE)
           W2 == TearDown(W1)
           W3 == createSocket(W2, c)
       IN startPingInterval(W3)

connect(W, c) == connectBody([W EXCEPT !.calls = W.calls + 1], c)

\* One more callback invocation, counted up to 2 (0, 1, many).
Bump(n) == IF n < 2 THEN n + 1 ELSE n

\* A send that forgets to extend the payload: the packet carries the data only.
SocketEmitBare(W, s, m) ==
  LET pkt == [m |-> m, fields |-> {"data"}]
  IN IF W.socks[s].st = "connected"
     THEN IF Len(W.sent) >= MaxSent THEN [W EXCEPT !.over = TRUE]
          ELSE [W EXCEPT !.sent = Append(W.sent, pkt),
                         !.acks = W.acks \cup {[sock |-> s, m |-> m]}]
     ELSE [W EXCEPT !.socks[s].buf = Append(W.socks[s].buf, pkt)]

\* socket.emit(event, emitData, ack) of socket.io: a connected socket writes the
\* packet; a socket that is not connected keeps it in its send buffer, which it
\* writes when it connects.
SocketEmit(W, s, m) ==
  LET pkt == [m |-> m, fields |-> EmitFields]
  IN IF W.socks[s].st = "connected"
     THEN IF Len(W.sent) >= MaxSent THEN [W EXCEPT !.over = TRUE]
          ELSE [W EXCEPT !.sent = Append(W.sent, pkt),
                         !.acks = W.acks \cup {[sock |-> s, m |-> m]}]
     ELSE [W EXCEPT !.socks[s].buf = Append(W.socks[s].buf, pkt)]

\* An emit that asks for a connection whenever it queues, connecting or not.
emitEager(W, e, m) ==
  IF W.socketRef = 0 \/ ~W.renders[e].isConnected
  THEN connect([W EXCEPT !.upd.pendingEmits = Append(W.upd.pendingEmits, m),
                         !.upd.pendDirty = TRUE,
                         !.cb[m].queued = Bump(W.cb[m].queued)],
               W.renders[e].cAt)
  ELSE IF m \in W.throwing
       THEN [W EXCEPT !.cb[m].failed = Bump(W.cb[m].failed)]
       ELSE SocketEmit(W, W.socketRef, m)

\* An emit without the try/catch around the send: what the send throws leaves
\* emit.
emitUncaught(W, e, m) ==
  IF W.socketRef = 0 \/ ~W.renders[e].isConnected
  THEN LET W1 == [W EXCEPT !.upd.pendingEmits = Append(W.upd.pendingEmits, m),
                           !.upd.pendDirty = TRUE,
                           !.cb[m].queued = Bump(W.cb[m].queued)]
       IN IF ~W.renders[e].isConnecting THEN connect(W1, W.renders[e].cAt) ELSE W1
  ELSE IF m \in W.throwing
       THEN [W EXCEPT !.thrown = TRUE]
       ELSE SocketEmit(W, W.socketRef, m)

\* emit as created by render e (it reads that render's isConnected, isConnecting
\* and connect).  m stands for the (event, data, callback) of one emit() call.
emit(W, e, m) ==
  IF W.socketRef = 0 \/ ~W.renders[e].isConnected
  THEN LET W1 == [W EXCEPT !.upd.pendingEmits = Append(W.upd.pendingEmits, m),
                           !.upd.pendDirty = TRUE,
                           !.cb[m].queued = Bump(W.cb[m].queued)]
       IN IF ~W.renders[e].isConnecting THEN connect(W1, W.renders[e].cAt) ELSE W1
  ELSE IF m \in W.throwing
       THEN [W EXCEPT !.cb[m].failed = Bump(W.cb[m].failed)]
       ELSE SocketEmit(W, W.socketRef, m)

RECURSIVE EmitAll(_, _, _)
EmitAll(W, e, q) ==
  IF q = <<>> THEN W ELSE EmitAll(emit(W, e, Head(q)), e, Tail(q))

\* processPendingEmits as created by render p (it reads that render's pendingEmits
\* and emit).
processPendingEmits(W, p) ==
  IF Len(W.renders[p].pendingEmits) > 0
     /\ W.socketRef # 0 /\ W.socks[W.socketRef].st = "connected"
  THEN LET W1 == EmitAll(W, W.renders[p].eAt, W.renders[p].pendingEmits)
       IN [W1 EXCEPT !.upd.pendingEmits = <<>>, !.upd.pendDirty = TRUE]
  ELSE W

\* The 'connect' listener registered by the connect closure c.
OnConnect(W, c) ==
  LET W1 == [W EXCEPT !.upd.isConnected = TRUE, !.upd.isConnecting = FALSE,
                      !.upd.reconnectAttempts = 0, !.upd.connectionError = FALSE,
                      !.upd.lastActivity = 0]
  IN processPendingEmits(showNotification(W1), W.renders[c].pAt)

\* setTimeout(() => connect(), 5000) of the 'disconnect' listener.
SetReconnectTimeout(W, c) ==
  LET free == {t \in TimerIds : W.timers[t] = 0}
  IN IF free = {} THEN [W EXCEPT !.over = TRUE]
     ELSE [W EXCEPT !.timers[Min(free)] = c, !.reconnectTimeoutRef = Min(free)]

\* The 'disconnect' listener registered by the connect closure c.
OnDisconnect(W, c, server) ==
  IF server THEN SetReconnectTimeout(showNotification(OnDisconnectState(W)), c)
  ELSE OnDisconnectState(W)

\* The 'connect_error' listener registered by the connect closure c.
OnConnectError(W, c) ==
  LET attempt == W.renders[c].reconnectAttempts + 1
  IN IF attempt > MaxAttempts THEN [W EXCEPT !.over = TRUE]
     ELSE showNotification(
            [W EXCEPT !.upd.connectionError = TRUE, !.upd.isConnecting = FALSE,
                      !.upd.reconnectAttempts = attempt])

\* The 'reconnect' listener.
OnReconnect(W) ==
  showNotification([W EXCEPT !.upd.isConnected = TRUE, !.upd.reconnectAttempts = 0,
                             !.upd.connectionError = FALSE])

\* The 'reconnect_attempt' listener.
OnReconnectAttempt(W, attemptNumber) ==
  IF attemptNumber > MaxAttempts THEN [W EXCEPT !.over = TRUE]
  ELSE [W EXCEPT !.upd.reconnectAttempts = attemptNumber]

\* ------------------------------------------------- render scopes kept alive
\* A render scope stays referenced while a closure created in it can still run:
\* <<"c", i>> is the connect created by render i, <<"p", i>> its
\* processPendingEmits, <<"e", i>> its emit.  connect calls the
\* processPendingEmits of its scope, which calls the emit of its scope, which
\* calls the connect of its scope.
Succ(R, x) ==
  IF x[1] = "c" THEN {<<"p", R[x[2]].pAt>>}
  ELSE IF x[1] = "p" THEN {<<"e", R[x[2]].eAt>>}
  ELSE {<<"c", R[x[2]].cAt>>}

RECURSIVE Closure(_, _)
Closure(R, X) ==
  LET Y == X \cup UNION {Succ(R, x) : x \in X}
  IN IF Y = X THEN X ELSE Closure(R, Y)

LiveSock(sk) == sk.st \in {"opening", "connected"}

Roots(W) ==
  LET n == Len(W.renders)
  IN {<<"c", W.renders[n].cAt>>, <<"p", W.renders[n].pAt>>, <<"e", W.renders[n].eAt>>}
     \cup {<<"c", W.socks[s].own>> : s \in {x \in SockIds : LiveSock(W.socks[x])}}
     \cup {<<"c", W.timers[t]>> : t \in {x \in TimerIds : W.timers[x] # 0}}

Pick(S) == CHOOSE x \in S : TRUE

\* W with only the render scopes K kept (C: the closures that can still run),
\* renumbered in order; of a kept scope only what those closures read is kept.
CollectWith(W, C, K) ==
  LET R == W.renders
      n == Len(R)
      Ren(k) == IF k \in K THEN Cardinality({j \in K : j <= k}) ELSE 0
      Has(kind, k) == k = n \/ <<kind, k>> \in C
      Scrub(k) ==
        [user |-> Has("c", k) /\ R[k].user,
         isConnected |-> Has("e", k) /\ R[k].isConnected,
         isConnecting |-> (Has("c", k) \/ Has("e", k)) /\ R[k].isConnecting,
         reconnectAttempts |-> IF Has("c", k) THEN R[k].reconnectAttempts ELSE 0,
         eventListeners |-> IF Has("c", k) THEN R[k].eventListeners ELSE {},
         pendingEmits |-> IF Has("p", k) THEN R[k].pendingEmits ELSE <<>>,
         cAt |-> IF Has("e", k) THEN Ren(R[k].cAt) ELSE 0,
         pAt |-> IF Has("c", k) THEN Ren(R[k].pAt) ELSE 0,
         eAt |-> IF Has("p", k) THEN Ren(R[k].eAt) ELSE 0]
  IN [W EXCEPT
        !.renders = [i \in 1..Cardinality(K) |->
                       Scrub(CHOOSE k \in K : Ren(k) = i)],
        !.socks = [s \in SockIds |->
                     IF LiveSock(W.socks[s])
                     THEN [W.socks[s] EXCEPT !.own = Ren(W.socks[s].own)]
                     ELSE [W.socks[s] EXCEPT !.own = 0]],
        !.timers = [t \in TimerIds |-> Ren(W.timers[t])]]

\* Drops the render scopes no closure can reach any more.
Collect(W) ==
  Pick({CollectWith(W, C, {Len(W.renders)} \cup {x[2] : x \in C}) :
          C \in {Closure(W.renders, Roots(W))}})

\* ------------------------------------------------------------------ render
Dirty(W) ==
  LET c == W.renders[Len(W.renders)]
  IN \/ W.upd.lstDirty \/ W.upd.pendDirty
     \/ W.upd.user # c.user
     \/ W.upd.isConnected # c.isConnected
     \/ W.upd.isConnecting # c.isConnecting
     \/ W.upd.reconnectAttempts # c.reconnectAttempts
     \/ W.upd.connectionError # connectionError
     \/ W.upd.lastActivity # lastActivity

\* The render scope the queued updates give: state values from upd, and each
\* memoised callback either kept from the previous render or created by this one
\* (useCallback compares the dependency lists of lines 276, 324 and 365).
NextScope(W) ==
  LET c == W.renders[Len(W.renders)]
      n == Len(W.renders) + 1
      connectNew == \/ W.upd.user # c.user
                    \/ W.upd.lstDirty
                    \/ W.upd.reconnectAttempts # c.reconnectAttempts
      emitNew == \/ W.upd.isConnected # c.isConnected
                 \/ W.upd.isConnecting # c.isConnecting
                 \/ connectNew
  IN [user |-> W.upd.user,
      isConnected |-> W.upd.isConnected,
      isConnecting |-> W.upd.isConnecting,
      reconnectAttempts |-> W.upd.reconnectAttempts,
      eventListeners |-> W.upd.eventListeners,
      pendingEmits |-> W.upd.pendingEmits,
      cAt |-> IF connectNew THEN n ELSE c.cAt,
      pAt |-> IF W.upd.pendDirty THEN n ELSE c.pAt,
      eAt |-> IF emitNew THEN n ELSE c.eAt]

\* The auto-connect effect (deps: user, token, connect, disconnect): its cleanup,
\* then its body, both run by a render that created a new connect.
AutoConnectEffect(W) ==
  LET n == Len(W.renders)
      W1 == disconnect(W)
  IN IF W.renders[n].user THEN connect(W1, W.renders[n].cAt) ELSE disconnect(W1)

\* The connection-health effect (deps: isConnected, lastActivity, connect,
\* disconnect): the interval exists while the render's isConnected and
\* lastActivity are set.
HealthEffect(W, la) ==
  [W EXCEPT !.checkInterval = W.renders[Len(W.renders)].isConnected /\ la # NoActivity]

\* A render: commits the queued updates, then runs the effects whose
\* dependencies changed.
render(W) ==
  LET sc == NextScope(W)
      n == Len(W.renders) + 1
      W1 == [W EXCEPT !.renders = Append(W.renders, sc),
                      !.upd.lstDirty = FALSE, !.upd.pendDirty = FALSE]
      W2 == IF sc.cAt = n THEN AutoConnectEffect(W1) ELSE W1
  IN HealthEffect(W2, W.upd.lastActivity)

\* ----------------------------------------------------------------- actions
NoDelivery == [ev |-> "none", n |-> [h \in Handlers |-> 0]]

\* The state a handler leaves: its world, with the unreachable render scopes
\* dropped.  A handler that would pass a bound of the model is not taken.
Commit(W0, op, arg) ==
  \E W \in {Collect(W0)} :
     /\ ~W0.over
     /\ Len(W.renders) <= MaxRenders
     /\ renders' = W.renders
     /\ upd' = W.upd
     /\ socketRef' = W.socketRef
     /\ socks' = W.socks
     /\ pingIntervalRef' = W.pingIntervalRef
     /\ pingTimers' = W.pingTimers
     /\ reconnectTimeoutRef' = W.reconnectTimeoutRef
     /\ timers' = W.timers
     /\ checkInterval' = W.checkInterval
     /\ sent' = W.sent
     /\ cb' = W.cb
     /\ acks' = W.acks
     /\ last' = [op |-> op, arg |-> arg, made |-> W0.made, tore |-> W0.tore,
                 calls |-> W0.calls, notes |-> W0.notes, thrown |-> W0.thrown]

Quiet == UNCHANGED <<connectionError, lastActivity, nextMsg, wrappers, offed, cleared, throwing,
               stale>>

\* ---- the public surface (socketMethods): the callbacks of the current render
ConnectCall ==
  /\ Commit(connect(World, Cur.cAt), "connect", 0)
  /\ delivered' = NoDelivery /\ Quiet

DisconnectCall ==
  /\ Commit(disconnect(World), "disconnect", 0)
  /\ delivered' = NoDelivery /\ Quiet

EmitCall ==
  /\ nextMsg < MaxMsgs
  /\ Commit(emit(World, Cur.eAt, nextMsg + 1), "emit", nextMsg + 1)
  /\ nextMsg' = nextMsg + 1
  /\ delivered' = NoDelivery
  /\ UNCHANGED <<connectionError, lastActivity, wrappers, offed, cleared, throwing, stale>>

\* emit() of a message whose send throws.
EmitThrowingCall ==
  /\ nextMsg < MaxMsgs
  /\ Commit(emit([World EXCEPT !.throwing = throwing \cup {nextMsg + 1}],
                 Cur.eAt, nextMsg + 1), "emit_throwing", nextMsg + 1)
  /\ throwing' = throwing \cup {nextMsg + 1}
  /\ nextMsg' = nextMsg + 1
  /\ delivered' = NoDelivery
  /\ UNCHANGED <<connectionError, lastActivity, wrappers, offed, cleared, stale>>

\* on(event, handler): a new wrapper is put in the registry and on the live socket.
on(W, w) ==
  LET W1 == [W EXCEPT !.upd.eventListeners = W.upd.eventListeners \cup {w},
                      !.upd.lstDirty = TRUE]
  IN IF W.socketRef # 0
     THEN [W1 EXCEPT !.socks[W.socketRef].hs = W.socks[W.socketRef].hs \cup {w}]
     ELSE W1

\* off(event, fn): the registry (a Set per event) and the socket drop the entry
\* that is the function fn itself; the entries are the wrappers of on().
Same(w, ev, fn) == w.ev = ev /\ <<"wrapper", w.id>> = fn

off(W, ev, fn) ==
  LET W1 == [W EXCEPT !.upd.eventListeners =
                          {w \in W.upd.eventListeners : ~Same(w, ev, fn)},
                      !.upd.lstDirty = TRUE]
  IN IF W.socketRef # 0
     THEN [W1 EXCEPT !.socks[W.socketRef].hs =
                         {w \in W.socks[W.socketRef].hs : ~Same(w, ev, fn)}]
     ELSE W1

removeAllListeners(W, ev) ==
  LET W1 == [W EXCEPT !.upd.eventListeners =
                          {w \in W.upd.eventListeners : w.ev # ev},
                      !.upd.lstDirty = TRUE]
  IN IF W.socketRef # 0
     THEN [W1 EXCEPT !.socks[W.socketRef].hs =
                         {w \in W.socks[W.socketRef].hs : w.ev # ev},
                     !.socks[W.socketRef].mute =
                         IF ev \in LifecycleEvents
                         THEN W.socks[W.socketRef].mute \cup {ev}
                         ELSE W.socks[W.socketRef].mute]
     ELSE W1

OnCall(ev, h) ==
  /\ Len(wrappers) < MaxWrappers
  /\ LET w == [id |-> Len(wrappers) + 1, ev |-> ev, h |-> h]
     IN /\ Commit(on(World, w), "on", w.id)
        /\ wrappers' = Append(wrappers, w)
  /\ offed' = offed \ {<<ev, h>>}
  /\ cleared' = cleared \ {ev}
  /\ delivered' = NoDelivery
  /\ UNCHANGED <<connectionError, lastActivity, nextMsg, throwing, stale>>

\* off(event, handler) with the handler that was given to on().
OffCall(ev, h) ==
  /\ Commit(off(World, ev, <<"handler", h>>), "off", 0)
  /\ offed' = IF \E i \in 1..Len(wrappers) : wrappers[i].ev = ev /\ wrappers[i].h = h
              THEN offed \cup {<<ev, h>>} ELSE offed
  /\ delivered' = NoDelivery
  /\ UNCHANGED <<connectionError, lastActivity, nextMsg, wrappers, cleared, throwing, stale>>

\* The unsubscribe function on() returned for wrapper i.
Unsubscribe(i) ==
  /\ i \in 1..Len(wrappers)
  /\ Commit(off(World, wrappers[i].ev, <<"wrapper", i>>), "unsubscribe", i)
  /\ delivered' = NoDelivery /\ Quiet

RemoveAllCall(ev) ==
  /\ Commit(removeAllListeners(World, ev), "removeAllListeners", ev)
  /\ cleared' = cleared \cup {ev}
  /\ delivered' = NoDelivery
  /\ UNCHANGED <<connectionError, lastActivity, nextMsg, wrappers, offed, throwing, stale>>

\* ---- the identity provider (useAuth): a login or logout re-renders the hook
Login ==
  /\ ~upd.user
  /\ Commit([World EXCEPT !.upd.user = TRUE], "login", 0)
  /\ delivered' = NoDelivery /\ Quiet

Logout ==
  /\ upd.user
  /\ Commit([World EXCEPT !.upd.user = FALSE], "logout", 0)
  /\ delivered' = NoDelivery /\ Quiet

\* ---- React: the queued updates are rendered and the effects run
Render ==
  /\ Dirty(World)
  /\ Commit(render(World), "render", 0)
  /\ connectionError' = upd.connectionError
  /\ lastActivity' = upd.lastActivity
  /\ stale' = IF user /\ ~upd.user
              THEN stale \cup {upd.pendingEmits[i] : i \in DOMAIN upd.pendingEmits}
              ELSE stale
  /\ delivered' = NoDelivery
  /\ UNCHANGED <<nextMsg, wrappers, offed, cleared, throwing>>

\* React renders the queued updates in a task of its own, queued by the handler
\* that made them: what needs a network round trip or a timer to elapse (an
\* attempt to open succeeding or failing, a timer firing, time passing) comes
\* after that render.  What can share a task or a burst of packets with the
\* handler (consumer calls, a disconnect, inbound messages) need not wait.
\* ImageGeneration: the consumer that takes `socket` out of socketMethods and
\* attaches its handler to it, without a wrapper and outside the registry.
handleGenerationProgress == [id |-> 0, ev |-> "generation_progress", h |-> "h1"]

\* socketMethods is recomputed at a render, and reads socketRef.current anew,
\* when one of its dependencies changed.
MemoNew(W) ==
  LET c == W.renders[Len(W.renders)]
  IN \/ W.upd.isConnected # c.isConnected
     \/ W.upd.isConnecting # c.isConnecting
     \/ W.upd.reconnectAttempts # c.reconnectAttempts
     \/ W.upd.connectionError # connectionError
     \/ W.upd.user # c.user
     \/ W.upd.lstDirty

\* The listeners effect of ImageGeneration at the render of W0, W2 being the
\* world after the hook's own effects of that render: the clean-up takes the
\* handler off the handle of the previous run, then, with a handle and a rendered
\* isConnected, socket.on() puts it on the handle this render read (a torn
\* down socket when the hook's effects replaced the transport in between).
listenersEffect(W0, W2) ==
  LET W3 == [W2 EXCEPT !.socks = [s \in SockIds |->
                          [W2.socks[s] EXCEPT !.hs = @ \ {handleGenerationProgress}]]]
  IN IF ~MemoNew(W0) THEN W2
     ELSE IF W0.socketRef # 0 /\ W0.upd.isConnected /\ W2.tore = 0
          THEN [W3 EXCEPT !.socks[W0.socketRef].hs = @ \cup {handleGenerationProgress}]
          ELSE W3

\* A render of ImageGeneration: the hook's render and effects, then the
\* component's listeners effect.
RenderImageGeneration ==
  /\ Dirty(World)
  /\ Commit(listenersEffect(World, render(World)), "render", 0)
  /\ connectionError' = upd.connectionError
  /\ lastActivity' = upd.lastActivity
  /\ stale' = stale
  /\ delivered' = NoDelivery
  /\ UNCHANGED <<nextMsg, wrappers, offed, cleared, throwing>>

Settled == ~Dirty(World)

\* ---- the transport (socket.io-client): what a socket reports to its listeners
\* The socket connects: it writes its send buffer, then reports 'connect'.
SocketOpen(W, s) ==
  IF Len(W.sent) + Len(W.socks[s].buf) > MaxSent THEN [W EXCEPT !.over = TRUE]
  ELSE [W EXCEPT !.socks[s].st = "connected", !.socks[s].tries = 0,
                 !.socks[s].buf = <<>>,
                 !.sent = W.sent \o W.socks[s].buf,
                 !.acks = W.acks \cup {[sock |-> s, m |-> W.socks[s].buf[i].m] :
                                         i \in 1..Len(W.socks[s].buf)}]

EvConnect(s) ==
  /\ Settled
  /\ socks[s].st = "opening"
  /\ \E W1 \in {SocketOpen(World, s)} :
       Commit(Heard(W1, s, "connect", OnConnect(W1, socks[s].own)), "ev_connect", s)
  /\ delivered' = NoDelivery /\ Quiet

\* The connection is lost: the server closed it (the socket stays closed) or the
\* transport dropped (the socket's manager starts to reconnect: attempt 1).
SocketClose(W, s, server) ==
  [W EXCEPT !.socks[s].st = IF server THEN "closed" ELSE "opening",
            !.socks[s].tries = IF server THEN 0 ELSE 1,
            !.acks = {a \in W.acks : a.sock # s}]

EvDisconnect(s, server) ==
  /\ socks[s].st = "connected"
  /\ \E W1 \in {SocketClose(World, s, server)} :
       Commit(Heard(W1, s, "disconnect", OnDisconnect(W1, socks[s].own, server)),
              "ev_disconnect", s)
  /\ delivered' = NoDelivery /\ Quiet

\* An attempt to open fails: the manager retries until reconnectionAttempts
\* retries have failed, then gives up.
SocketError(W, s) ==
  IF W.socks[s].tries < ReconnectionAttempts
  THEN [W EXCEPT !.socks[s].tries = W.socks[s].tries + 1]
  ELSE [W EXCEPT !.socks[s].st = "failed"]

EvConnectError(s) ==
  /\ Settled
  /\ socks[s].st = "opening"
  /\ \E W1 \in {SocketError(World, s)} :
       Commit(Heard(W1, s, "connect_error", OnConnectError(W1, socks[s].own)),
              "ev_connect_error", s)
  /\ delivered' = NoDelivery /\ Quiet

EvReconnectAttempt(s) ==
  /\ Settled
  /\ socks[s].st = "opening" /\ socks[s].tries > 0
  /\ Commit(Heard(World, s, "reconnect_attempt",
                  OnReconnectAttempt(World, socks[s].tries)), "ev_reconnect_attempt", s)
  /\ delivered' = NoDelivery /\ Quiet

\* A retry of the manager succeeded; the socket's own 'connect' follows.
EvReconnect(s) ==
  /\ Settled
  /\ socks[s].st = "opening" /\ socks[s].tries > 0
  /\ \E W1 \in {[World EXCEPT !.socks[s].tries = 0]} :
       Commit(Heard(W1, s, "reconnect", OnReconnect(W1)), "ev_reconnect", s)
  /\ delivered' = NoDelivery /\ Quiet

EvReconnectFailed(s) ==
  /\ Settled
  /\ socks[s].st = "failed"
  /\ Commit(Heard(World, s, "reconnect_failed", showNotification(World)),
            "ev_reconnect_failed", s)
  /\ delivered' = NoDelivery /\ Quiet

EvPong(s) ==
  /\ socks[s].st = "connected"
  /\ Commit(Heard(World, s, "pong", [World EXCEPT !.upd.lastActivity = 0]),
            "ev_pong", s)
  /\ delivered' = NoDelivery /\ Quiet

\* The acknowledgment of a packet arrives: the callback given to socket.emit.
EvAck(a) ==
  /\ a \in acks /\ socks[a.sock].st = "connected"
  /\ Commit([World EXCEPT !.upd.lastActivity = 0,
                          !.cb[a.m].acked = Bump(cb[a.m].acked),
                          !.acks = acks \ {a}], "ev_ack", a.m)
  /\ delivered' = NoDelivery /\ Quiet

\* An inbound message of a consumer category: the socket calls its listeners.
EvMessage(s, ev) ==
  /\ socks[s].st = "connected"
  /\ Commit(World, "ev_message", s)
  /\ delivered' = [ev |-> ev,
                   n |-> [h \in Handlers |->
                            Cardinality({w \in socks[s].hs : w.ev = ev /\ w.h = h})]]
  /\ Quiet

\* ---- timers
\* A delayed-reconnect timer fires and calls the connect of the closure that set
\* it.  (A fired timer's id stays in reconnectTimeoutRef; clearing it is void,
\* so the reference is modelled as cleared.)
ReconnectTimerFires(t) ==
  /\ Settled
  /\ timers[t] # 0
  /\ Commit(connect([World EXCEPT !.timers[t] = 0,
                                  !.reconnectTimeoutRef =
                                     IF reconnectTimeoutRef = t THEN 0
                                     ELSE reconnectTimeoutRef],
                    timers[t]), "reconnect_timer", t)
  /\ delivered' = NoDelivery /\ Quiet

\* The heartbeat interval fires: a ping goes out when the socket is connected.
PingTimerFires ==
  /\ Settled
  /\ pingTimers > 0
  /\ Commit(World, "ping",
            IF socketRef # 0 /\ socks[socketRef].st = "connected" THEN socketRef ELSE 0)
  /\ delivered' = NoDelivery /\ Quiet

\* The health-check interval fires (every 30 s).
healthCheck(W) ==
  IF lastActivity > StaleThreshold THEN connect(disconnect(W), Cur.cAt) ELSE W

HealthCheckFires ==
  /\ Settled
  /\ checkInterval
  /\ Commit(healthCheck(World), "health_check", 0)
  /\ delivered' = NoDelivery /\ Quiet

\* 30 s pass: every recorded activity is one period older.
Older(a) == IF a = NoActivity \/ a >= MaxAge THEN a ELSE a + 1

Tick ==
  /\ Settled
  /\ Older(lastActivity) # lastActivity \/ Older(upd.lastActivity) # upd.lastActivity
  /\ Commit([World EXCEPT !.upd.lastActivity = Older(upd.lastActivity)], "tick", 0)
  /\ lastActivity' = Older(lastActivity)
  /\ delivered' = NoDelivery
  /\ UNCHANGED <<connectionError, nextMsg, wrappers, offed, cleared, throwing, stale>>

\* ---- the page becomes visible again
handleVisibilityChange(W) ==
  IF user /\ ~isConnected /\ ~isConnecting THEN connect(W, Cur.cAt) ELSE W

VisibilityChange ==
  /\ Commit(handleVisibilityChange(World), "visibility", 0)
  /\ delivered' = NoDelivery /\ Quiet

\* ----------------------------------------------------------- specification
Scope0 ==
  [user |-> FALSE, isConnected |-> FALSE, isConnecting |-> FALSE,
   reconnectAttempts |-> 0, eventListeners |-> {}, pendingEmits |-> <<>>,
   cAt |-> 1, pAt |-> 1, eAt |-> 1]

Init ==
  /\ renders = <<Scope0>>
  /\ upd = [user |-> FALSE, isConnected |-> FALSE, isConnecting |-> FALSE,
            reconnectAttempts |-> 0, connectionError |-> FALSE,
            lastActivity |-> NoActivity, eventListeners |-> {},
            pendingEmits |-> <<>>, lstDirty |-> FALSE, pendDirty |-> FALSE]
  /\ connectionError = FALSE
  /\ lastActivity = NoActivity
  /\ socketRef = 0
  /\ socks = [s \in SockIds |-> FreeSock]
  /\ pingIntervalRef = FALSE
  /\ pingTimers = 0
  /\ reconnectTimeoutRef = 0
  /\ timers = [t \in TimerIds |-> 0]
  /\ checkInterval = FALSE
  /\ sent = <<>>
  /\ cb = [m \in Msgs |-> [queued |-> 0, acked |-> 0, failed |-> 0]]
  /\ acks = {}
  /\ nextMsg = 0
  /\ wrappers = <<>>
  /\ offed = {}
  /\ cleared = {}
  /\ throwing = {}
  /\ stale = {}
  /\ delivered = NoDelivery
  /\ last = [op |-> "init", arg |-> 0, made |-> 0, tore |-> 0, calls |-> 0, notes |-> 0,
             thrown |-> FALSE]

\* The identity provider, React and the transport opening.
Core ==
  \/ Login
  \/ Logout
  \/ Render
  \/ \E s \in SockIds : EvConnect(s)

\* The connection's life: explicit connect and disconnect, every way the
\* transport is lost, the manager's reconnection events, the timers and the
\* page's visibility.
Next ==
  \/ Core
  \/ ConnectCall
  \/ DisconnectCall
  \/ \E s \in SockIds : EvConnectError(s)
  \/ \E s \in SockIds, server \in BOOLEAN : EvDisconnect(s, server)
  \/ \E s \in SockIds : EvReconnectAttempt(s)
  \/ \E s \in SockIds : EvReconnect(s)
  \/ \E s \in SockIds : EvReconnectFailed(s)
  \/ \E s \in SockIds : EvPong(s)
  \/ \E t \in TimerIds : ReconnectTimerFires(t)
  \/ PingTimerFires
  \/ HealthCheckFires
  \/ Tick
  \/ VisibilityChange

Spec == Init /\ [][Next]_vars

\* Consumers emitting: the outbound queue and its flush, over a transport that
\* opens, fails to open and drops.
NextEmit ==
  \/ Core
  \/ EmitCall
  \/ \E s \in SockIds : upd.reconnectAttempts < MaxFailures /\ EvConnectError(s)
  \/ \E s \in SockIds : EvDisconnect(s, FALSE)
  \/ \E a \in acks : EvAck(a)

SpecEmit == Init /\ [][NextEmit]_vars

\* Consumers subscribing: the registry and the delivery of inbound messages.
NextSubs ==
  \/ Core
  \/ \E ev \in Events, h \in Handlers : OnCall(ev, h)
  \/ \E ev \in Events, h \in Handlers : OffCall(ev, h)
  \/ \E i \in 1..MaxWrappers : Unsubscribe(i)
  \/ \E ev \in Events : RemoveAllCall(ev)
  \/ \E s \in SockIds : upd.reconnectAttempts < MaxFailures /\ EvConnectError(s)
  \/ \E s \in SockIds : EvDisconnect(s, FALSE)
  \/ \E s \in SockIds, ev \in Events : EvMessage(s, ev)

SpecSubs == Init /\ [][NextSubs]_vars

\* Consumers subscribing while the server closes the connection: the delayed
\* reconnect and explicit connect() calls replace the transport.
NextResub ==
  \/ Login
  \/ Render
  \/ ConnectCall
  \/ \E s \in SockIds : EvConnect(s)
  \/ \E s \in SockIds, server \in BOOLEAN : EvDisconnect(s, server)
  \/ \E t \in TimerIds : ReconnectTimerFires(t)
  \/ \E ev \in Events, h \in Handlers : OnCall(ev, h)
  \/ \E ev \in Events : RemoveAllCall(ev)
  \/ \E s \in SockIds, ev \in Events : EvMessage(s, ev)

SpecResub == Init /\ [][NextResub]_vars

\* Consumers emitting messages whose send may throw.
NextThrow ==
  \/ Login
  \/ Render
  \/ EmitCall
  \/ EmitThrowingCall
  \/ \E s \in SockIds : EvConnect(s)
  \/ \E s \in SockIds : EvDisconnect(s, FALSE)
  \/ \E a \in acks : EvAck(a)

SpecThrow == Init /\ [][NextThrow]_vars

\* The hook inside ImageGeneration, which listens on the exposed socket.
NextDirect ==
  \/ Login
  \/ Logout
  \/ \E s \in SockIds : EvConnectError(s)
  \/ RenderImageGeneration
  \/ \E s \in SockIds : EvConnect(s)
  \/ \E s \in SockIds, server \in BOOLEAN : EvDisconnect(s, server)
  \/ \E t \in TimerIds : ReconnectTimerFires(t)
  \/ \E s \in SockIds : EvPong(s)
  \/ HealthCheckFires
  \/ Tick
  \/ \E s \in SockIds : EvMessage(s, handleGenerationProgress.ev)

SpecDirect == Init /\ [][NextDirect]_vars

\* The lifecycle events the consumer of NextLifecycle clears.
ClearedLifecycle == {"connect", "disconnect"}

\* A consumer that calls removeAllListeners with the names of lifecycle events.
NextLifecycle ==
  \/ Login
  \/ Render
  \/ \E s \in SockIds : EvConnect(s)
  \/ \E s \in SockIds, server \in BOOLEAN : EvDisconnect(s, server)
  \/ \E s \in SockIds : upd.reconnectAttempts < MaxFailures /\ EvConnectError(s)
  \/ \E ev \in ClearedLifecycle : RemoveAllCall(ev)

SpecLifecycle == Init /\ [][NextLifecycle]_vars

\* ------------------------------------------------------------- properties
\* The manager's state as the transport and the latest state updates give it.
Connected == socketRef # 0 /\ socks[socketRef].st = "connected"
Connecting == upd.isConnecting /\ socketRef # 0 /\ socks[socketRef].st = "opening"

\* C1: at most one transport is live (opening or connected) at a time, and it is
\* the one socketRef holds: whenever a transport is created, the one held before
\* has been disconnected and its reference dropped.
C1_OneLiveTransport ==
  /\ Cardinality({s \in SockIds : LiveSock(socks[s])}) <= 1
  /\ \A s \in SockIds : LiveSock(socks[s]) => socketRef = s

\* A handler replaced a held transport by a new one, which is live.
C1_Witness ==
  /\ last.made = 1 /\ last.tore = 1
  /\ socketRef # 0 /\ LiveSock(socks[socketRef])

\* C2: connect() is idempotent: called while the manager is Connected or
\* Connecting (also before the state update of an earlier connect() was
\* rendered), it creates no transport, tears none down and changes no state.
C2_ConnectIdempotent ==
  [][(last'.op = "connect" /\ (Connected \/ Connecting))
       => (last'.made = 0 /\ last'.tore = 0 /\ UNCHANGED <<upd, socketRef, socks>>)]_vars

\* How many times message m was put on the wire.
Count(m) == Cardinality({i \in 1..Len(sent) : sent[i].m = m})

\* The messages emit() queued (their callbacks were told so).
Queued == {m \in 1..nextMsg : cb[m].queued > 0}

\* C3: every message emit() queued while not connected is sent exactly once, in
\* call order, when the transport next connects: no message is ever sent twice,
\* and once 'connect' has been handled the queue is empty and each queued
\* message is on the wire, the queued messages in the order of their calls.
C3_QueuedSentOnceInOrder ==
  /\ \A m \in Msgs : Count(m) <= 1
  /\ last.op = "ev_connect" =>
       /\ upd.pendingEmits = <<>>
       /\ \A m \in Queued : Count(m) = 1
       /\ \A i, j \in 1..Len(sent) :
            (i < j /\ sent[i].m \in Queued /\ sent[j].m \in Queued)
              => sent[i].m < sent[j].m

\* C4: after on(cat, h) then off(cat, h), h is invoked for no later inbound
\* message of cat, on the transport of that time or on a later one.
C4_NoDeliveryAfterOff ==
  \A h \in Handlers : <<delivered.ev, h>> \in offed => delivered.n[h] = 0

\* C5: a handler is registered at most once per category: however often
\* on(cat, h) was called, an inbound message of cat invokes h at most once.
C5_HandlerOncePerCategory ==
  \A h \in Handlers : delivered.n[h] <= 1

Automatic == {"render", "reconnect_timer", "health_check"}

\* C8: once reconnectAttempts has reached the configured maximum the manager
\* makes no further connection attempt by itself: with no change of identity
\* pending, no automatic step creates a transport.
C8_NoAutomaticRetryAfterMax ==
  [][(upd.reconnectAttempts >= ReconnectionAttempts /\ upd.user = user
        /\ last'.op \in Automatic)
       => last'.made = 0]_vars

\* What disconnect() may change, without the counters of one handler run.
Facts(W) ==
  [renders |-> W.renders, upd |-> W.upd, socketRef |-> W.socketRef,
   socks |-> W.socks, pingIntervalRef |-> W.pingIntervalRef,
   pingTimers |-> W.pingTimers, reconnectTimeoutRef |-> W.reconnectTimeoutRef,
   timers |-> W.timers, checkInterval |-> W.checkInterval, sent |-> W.sent,
   cb |-> W.cb, acks |-> W.acks]

\* C9: disconnect() is idempotent: in the state a disconnect() leaves, a second
\* disconnect() changes nothing (transport, flags, timers, queue, registry).
C9_DisconnectIdempotent ==
  last.op = "disconnect" => Facts(disconnect(World)) = Facts(World)

\* A disconnect() that tore a transport down and cleared the heartbeat.
C9_Witness ==
  /\ last.op = "disconnect" /\ last.tore = 1
  /\ socketRef = 0 /\ ~pingIntervalRef

\* C10: when disconnect() returns the manager is idle: no transport is held or
\* live, isConnected and isConnecting are false, no heartbeat timer and no
\* delayed-reconnect timer is pending.
C10_IdleAfterDisconnect ==
  last.op = "disconnect" =>
    /\ socketRef = 0
    /\ \A s \in SockIds : ~LiveSock(socks[s])
    /\ ~upd.isConnected /\ ~upd.isConnecting
    /\ pingTimers = 0
    /\ \A t \in TimerIds : timers[t] = 0

\* The events a socket reports to the lifecycle listeners of connect().
TransportEvents ==
  {"ev_connect", "ev_disconnect", "ev_connect_error", "ev_reconnect",
   "ev_reconnect_attempt", "ev_reconnect_failed", "ev_pong"}

C12_StaleCycleOnce ==
  [][/\ (last'.op = "health_check" /\ user /\ lastActivity > StaleThreshold) =>
          /\ last'.tore = 1 /\ last'.made = 1
          /\ upd'.lastActivity = NoActivity
     /\ (last'.op = "health_check" /\ ~(lastActivity > StaleThreshold)) =>
          /\ last'.tore = 0 /\ last'.made = 0
          /\ UNCHANGED <<upd, socketRef, socks>>
     /\ checkInterval' => (isConnected' /\ lastActivity' # NoActivity)]_vars

\* C13: the registry outlives the transports and every transport carries it:
\* whenever the held transport is connected, each handler the registry holds
\* is attached to it, so it receives the messages of its category.
C13_RegistryReattached ==
  Connected => upd.eventListeners \subseteq socks[socketRef].hs

\* C14: connect() called without identity or token does nothing: no transport
\* is created or torn down, no notification is sent, and isConnecting,
\* isConnected, connectionError, reconnectAttempts and the refs are unchanged.
C14_ConnectWithoutIdentity ==
  [][(last'.op = "connect" /\ ~user) =>
       /\ last'.made = 0 /\ last'.tore = 0 /\ last'.notes = 0
       /\ UNCHANGED <<upd, socketRef, socks, pingIntervalRef, pingTimers,
                      reconnectTimeoutRef, timers>>]_vars

\* connect() was called while logged out and nothing is held or queued.
C14_Witness ==
  /\ last.op = "connect" /\ last.calls = 1 /\ last.made = 0
  /\ ~user /\ ~upd.user /\ socketRef = 0 /\ ~upd.isConnecting

\* The manager is trying again after a failure.
Reconnecting ==
  /\ socketRef # 0 /\ socks[socketRef].st = "opening"
  /\ (upd.reconnectAttempts > 0 \/ socks[socketRef].tries > 0)

\* C15: when the identity is cleared while reconnecting, the render that handles
\* it leaves the manager idle with every timer cancelled, and the transport the
\* next login creates starts with reconnectAttempts at 0.
C15_IdentityClearedWhileReconnecting ==
  [][/\ (last'.op = "render" /\ Reconnecting /\ user /\ ~user') =>
          /\ socketRef' = 0 /\ \A s \in SockIds : ~LiveSock(socks'[s])
          /\ ~upd'.isConnected /\ ~upd'.isConnecting
          /\ pingTimers' = 0 /\ \A t \in TimerIds : timers'[t] = 0
     /\ (last'.op = "render" /\ ~user /\ user' /\ last'.made = 1) =>
          upd'.reconnectAttempts = 0]_vars

\* The entries of a set of wrappers that are of category ev.
Of(H, ev) == {w \in H : w.ev = ev}

\* C16: removeAllListeners(cat) takes every handler of cat out of the registry
\* and off the live transport and leaves the other categories as they are, and
\* no handler is invoked for a message of cat afterwards, on that transport or
\* on a later one, until on(cat, ...) is called again.
C16_RemoveAllListeners ==
  [][/\ last'.op = "removeAllListeners" =>
          /\ Of(upd'.eventListeners, last'.arg) = {}
          /\ socketRef' # 0 => Of(socks'[socketRef'].hs, last'.arg) = {}
          /\ socketRef' = socketRef
          /\ \A ev \in Events \ {last'.arg} :
               /\ Of(upd'.eventListeners, ev) = Of(upd.eventListeners, ev)
               /\ socketRef # 0 => Of(socks'[socketRef].hs, ev) = Of(socks[socketRef].hs, ev)
     /\ delivered'.ev \in cleared' => \A h \in Handlers : delivered'.n[h] = 0]_vars

\* C17: when the page becomes visible with an identity present and the state
\* neither connected nor connecting, a connection attempt starts at once
\* (connect() is called and, unless the transport has connected meanwhile, opens
\* a transport); when the state is connected or connecting, or no identity is
\* present, nothing is attempted or changed.
C17_VisibilityReconnect ==
  [][last'.op = "visibility" =>
       IF user /\ ~isConnected /\ ~isConnecting
       THEN /\ last'.calls = 1
            /\ IF Connected THEN last'.made = 0 /\ last'.tore = 0
               ELSE /\ last'.made = 1
                    /\ socketRef' # 0 /\ socks'[socketRef'].st = "opening"
       ELSE /\ last'.calls = 0 /\ last'.made = 0 /\ last'.tore = 0
            /\ UNCHANGED <<upd, socketRef, socks, timers>>]_vars

\* C18: no exception leaves emit(): when the send throws while connected, the
\* error goes to the callback of that call, once, nothing is put on the wire or
\* in a socket's buffer, and the connection state, the queue, the registry and
\* the transport are as they were.
C18_EmitCatchesSendError ==
  [][/\ ~last'.thrown
     /\ (last'.op = "emit_throwing" /\ isConnected /\ socketRef # 0) =>
          /\ cb' = [cb EXCEPT ![last'.arg].failed = 1]
          /\ sent' = sent /\ acks' = acks
          /\ last'.calls = 0 /\ last'.made = 0 /\ last'.tore = 0
          /\ UNCHANGED <<renders, upd, socketRef, socks, connectionError>>]_vars

\* The send of an emit() threw on a connected transport and the callback got
\* the error.
C18_Witness ==
  /\ last.op = "emit_throwing" /\ ~last.thrown
  /\ cb[last.arg] = [queued |-> 0, acked |-> 0, failed |-> 1]
  /\ Connected /\ isConnected

\* C19: a message that was in the queue when the identity was cleared is never
\* sent afterwards: the transports that exist after the clear are the ones made
\* for a later identity.
C19_QueueDiscardedOnIdentityClear ==
  [][\A i \in (Len(sent) + 1)..Len(sent') : sent'[i].m \notin stale]_vars

\* C20: when the manager replaces the transport, every handler that was on the
\* old transport is on the new one: nothing a consumer registered is attached to
\* one transport only.
C20_HandlersSurviveReplacement ==
  [][(socketRef # 0 /\ socketRef' # 0 /\ last'.made > 0) =>
        socks[socketRef].hs \subseteq socks'[socketRef'].hs]_vars

\* C21: the 'connect' of a transport leaves isConnected true, isConnecting
\* false, the attempt counter 0, no connection error, a fresh activity time and
\* an empty queue whose messages have all been sent; the 'reconnect' of a
\* transport leaves the same flags, counter and error.
C21_ConnectedTransition ==
  [][/\ last'.op = "ev_connect" =>
          /\ upd'.isConnected /\ ~upd'.isConnecting
          /\ upd'.reconnectAttempts = 0 /\ ~upd'.connectionError
          /\ upd'.lastActivity = 0
          /\ upd'.pendingEmits = <<>>
          /\ \A i \in DOMAIN upd.pendingEmits :
                \E j \in DOMAIN sent' : sent'[j].m = upd.pendingEmits[i]
     /\ last'.op = "ev_reconnect" =>
          /\ upd'.isConnected /\ ~upd'.isConnecting
          /\ upd'.reconnectAttempts = 0 /\ ~upd'.connectionError]_vars

\* C22: a 'disconnect' the server asked for makes no connect() at once and sets
\* one new delayed-reconnect timer; a 'disconnect' for another reason sets none;
\* after disconnect() no delayed-reconnect timer is pending, so no scheduled
\* connect() can run.
C22_DelayedReconnect ==
  [][/\ (last'.op = "ev_disconnect" /\ socks'[last'.arg].st = "closed") =>
          /\ last'.calls = 0 /\ last'.made = 0
          /\ reconnectTimeoutRef' # 0
          /\ timers[reconnectTimeoutRef'] = 0 /\ timers'[reconnectTimeoutRef'] # 0
     /\ (last'.op = "ev_disconnect" /\ socks'[last'.arg].st # "closed") =>
          /\ last'.calls = 0 /\ last'.made = 0
          /\ reconnectTimeoutRef' = reconnectTimeoutRef
          /\ \A t \in TimerIds : (timers'[t] = 0) = (timers[t] = 0)
     /\ last'.op = "disconnect" => \A t \in TimerIds : timers'[t] = 0]_vars

\* C23: every inbound event of the connected transport (a pong, an
\* acknowledgment, a message of a consumer category) records the activity time,
\* and a health check that comes right after an inbound message does not cycle
\* the connection.
C23_InboundIsActivity ==
  [][/\ last'.op \in {"ev_pong", "ev_ack", "ev_message"} => upd'.lastActivity = 0
     /\ (last.op = "ev_message" /\ last'.op = "health_check") =>
           last'.tore = 0 /\ last'.made = 0]_vars

\* The manager holds a transport that is connected or on its way to be.
InSession == socketRef # 0 /\ LiveSock(socks[socketRef])

\* C24: at most one heartbeat timer exists; a heartbeat probe goes to the
\* current, connected transport only; once the manager has left Connected and
\* Reconnecting and has rendered that, no heartbeat timer and no staleness-check
\* timer is pending.
C24_HeartbeatTimers ==
  /\ pingTimers <= 1
  /\ (last.op = "ping" /\ last.arg # 0) =>
        last.arg = socketRef /\ socks[socketRef].st = "connected"
  /\ (~Dirty(World) /\ ~InSession) => pingTimers = 0 /\ ~checkInterval

\* C25: while no identity is present, and the hook has rendered that, the manager
\* holds no transport and no transport is live.
C25_NoTransportWithoutIdentity ==
  (~user /\ ~upd.user) => socketRef = 0 /\ \A s \in SockIds : ~LiveSock(socks[s])

\* The calls that change the subscription registry.
RegistryCalls == {"on", "off", "unsubscribe", "removeAllListeners"}

\* C26: on(), off() and removeAllListeners() leave the transport, the flags, the
\* attempt counter and the queue alone: the call itself touches only the
\* registry and the listeners of the current transport, and the render that
\* takes up nothing but the changed registry closes and creates no transport.
C26_RegistryCallsFrame ==
  [][/\ last'.op \in RegistryCalls =>
          /\ last'.made = 0 /\ last'.tore = 0 /\ last'.calls = 0
          /\ socketRef' = socketRef
          /\ \A s \in SockIds : socks'[s].st = socks[s].st
          /\ \A s \in SockIds \ {socketRef} : socks'[s] = socks[s]
          /\ upd'.isConnected = upd.isConnected /\ upd'.isConnecting = upd.isConnecting
          /\ upd'.reconnectAttempts = upd.reconnectAttempts
          /\ upd'.pendingEmits = upd.pendingEmits
     /\ (/\ last'.op = "render" /\ upd.lstDirty
         /\ upd.user = user /\ upd.isConnected = isConnected
         /\ upd.isConnecting = isConnecting
         /\ upd.reconnectAttempts = reconnectAttempts) =>
          /\ last'.made = 0 /\ last'.tore = 0
          /\ socketRef' = socketRef
          /\ upd'.isConnected = upd.isConnected /\ upd'.isConnecting = upd.isConnecting]_vars

\* C27: the attempt counter counts the failed attempts since the last success:
\* a 'connect_error' raises it by one, a 'connect' or 'reconnect' sets it to 0,
\* nothing else changes it, and it is 0 while the manager is connected.
C27_AttemptCounter ==
  [][/\ last'.op = "ev_connect_error" =>
          upd'.reconnectAttempts = upd.reconnectAttempts + 1
     /\ upd'.reconnectAttempts # upd.reconnectAttempts =>
          \/ last'.op = "ev_connect_error"
          \/ last'.op \in {"ev_connect", "ev_reconnect"} /\ upd'.reconnectAttempts = 0
     /\ (socketRef' # 0 /\ socks'[socketRef'].st = "connected" /\ upd'.isConnected) =>
          upd'.reconnectAttempts = 0]_vars

\* C28: isConnected and isConnecting are never both true, neither as last set
\* nor as rendered.
C28_NotConnectedAndConnecting ==
  /\ ~(upd.isConnected /\ upd.isConnecting)
  /\ ~(isConnected /\ isConnecting)

\* C29: whenever isConnected has been set to true the manager holds a transport
\* and that transport is connected.
C29_ConnectedHasTransport ==
  upd.isConnected => socketRef # 0 /\ socks[socketRef].st = "connected"

\* C30: removeAllListeners() with the name of a lifecycle event leaves the
\* manager's own listener for that event on the transport, so the flags follow
\* the transport: isConnected is true after its 'connect' and false after its
\* 'disconnect'.
C30_LifecycleListenersStay ==
  [][/\ \A s \in SockIds : socks'[s].mute = {}
     /\ last'.op = "ev_connect" => upd'.isConnected
     /\ last'.op = "ev_disconnect" => ~upd'.isConnected]_vars

====
